---- MODULE Spec2Model ----
(***************************************************************************)
(* Bounded-depth class closure, label collection, pattern compilation and  *)
(* ambiguity detection of the Catholic Semantic Canon ontology scripts     *)
(* (scripts/pattern_generator.py, scripts/find_ambiguous_terms.py).        *)
(*                                                                         *)
(* Python strings are sequences of one-character strings, compared by      *)
(* code point.  An RDF graph is a set of triples <<s, p, o>> of terms.     *)
(***************************************************************************)
EXTENDS Bags, FiniteSets, Integers, Sequences, TLC

VARIABLES
    graph,        \* the rdflib Graph: a set of triples
    root_uri,     \* closure resolution: the root handed to get_subclass_uris
    closure_out,  \* closure resolution: outcome of the get_subclass_uris call
    labels_in,    \* compilation: the label set handed to generate_regex_pattern
    uris_in,      \* compilation: the identifier set handed to generate_values_clause
    regex_outs,   \* compilation: every string generate_regex_pattern has returned
    values_outs,  \* compilation: every string generate_values_clause has returned
    document,     \* main: the configuration file as load_config finds it
    config,       \* main: the dict load_config returned
    pc,           \* main: where the run of main() stands
    raised,       \* main: the exception that ended the run, "none" otherwise
    cat_idx,      \* generate_patterns: position in categories.items()
    root_idx,     \* generate_patterns: position in root_classes
    cat_labels,   \* generate_patterns: the label set of the current category
    cat_uris,     \* generate_patterns: the identifier list of the current category
    patterns,     \* generate_patterns: patterns["categories"], in insertion order
    calls,        \* history: every call of a query function made by the run
    ambiguous     \* ambiguity scan: the dict find_ambiguous_labels returned

closureVars == <<root_uri, closure_out>>

compileVars == <<labels_in, uris_in, regex_outs, values_outs>>

mainVars ==
    <<document, config, pc, raised, cat_idx, root_idx, cat_labels, cat_uris, patterns, calls>>

vars == <<graph, closureVars, compileVars, mainVars, ambiguous>>

(***************************************************************************)
(* Strings                                                                 *)
(***************************************************************************)

\* Printable ASCII, code points 32..126, in code-point order (code point 96
\* is held by a placeholder: no identifier or label of the model uses it).
Ascii ==
    <<" ", "!", "\"", "#", "$", "%", "&", "'", "(", ")", "*", "+", ",", "-", ".", "/",
      "0", "1", "2", "3", "4", "5", "6", "7", "8", "9", ":", ";", "<", "=", ">", "?",
      "@", "A", "B", "C", "D", "E", "F", "G", "H", "I", "J", "K", "L", "M", "N", "O",
      "P", "Q", "R", "S", "T", "U", "V", "W", "X", "Y", "Z", "[", "\\", "]", "^", "_",
      "(grave)", "a", "b", "c", "d", "e", "f", "g", "h", "i", "j", "k", "l", "m", "n", "o",
      "p", "q", "r", "s", "t", "u", "v", "w", "x", "y", "z", "{", "|", "}", "~">>

Chars == {Ascii[i] : i \in 1..Len(Ascii)}

\* ord(c) for every printable character.
OrdTable == [c \in Chars |-> 31 + (CHOOSE i \in 1..Len(Ascii) : Ascii[i] = c)]

Ord(c) == OrdTable[c]

RECURSIVE LexLessFrom(_, _, _)
LexLessFrom(s, t, i) ==
    IF i > Len(t) THEN FALSE
    ELSE IF i > Len(s) THEN TRUE
    ELSE IF s[i] = t[i] THEN LexLessFrom(s, t, i + 1)
    ELSE Ord(s[i]) < Ord(t[i])

\* Python's s < t on str: lexicographic by code point, a proper prefix is smaller.
LexLess(s, t) == LexLessFrom(s, t, 1)

StartsWith(s, p) == Len(s) >= Len(p) /\ SubSeq(s, 1, Len(p)) = p

RECURSIVE Concat(_)
\* "".join(parts)
Concat(parts) == IF parts = <<>> THEN <<>> ELSE Head(parts) \o Concat(Tail(parts))

RECURSIVE Join(_, _)
\* sep.join(parts)
Join(sep, parts) ==
    IF parts = <<>> THEN <<>>
    ELSE IF Len(parts) = 1 THEN parts[1]
    ELSE parts[1] \o sep \o Join(sep, Tail(parts))

Range(f) == {f[i] : i \in DOMAIN f}

\* Every order in which a Python set can be iterated.
IterOrders(S) == {f \in [1..Cardinality(S) -> S] : Range(f) = S}

RECURSIVE IterOrder(_)
\* One iteration order of a set (which one does not matter once sorted).
IterOrder(S) ==
    IF S = {} THEN <<>>
    ELSE LET x == CHOOSE y \in S : TRUE IN <<x>> \o IterOrder(S \ {x})

sortedIdentity(seq) == seq

\* sorted(iterable) on strings.
sorted(seq) == SortSeq(seq, LexLess)

(***************************************************************************)
(* RDF terms and graphs                                                    *)
(***************************************************************************)

\* URIRef(s), Literal(s): str(term) is term.v.
Uri(s) == [k |-> "uri", v |-> s]

Literal(s) == [k |-> "lit", v |-> s]

\* rdflib.namespace constants, written as prefixed names.
RDF_type == "rdf:type"

RDFS_subClassOf == "rdfs:subClassOf"

RDFS_label == "rdfs:label"

SKOS_altLabel == "skos:altLabel"

SKOS_prefLabel == "skos:prefLabel"

OWL_Class == Uri(<<"owl:Class">>)

OWL_Thing == Uri(<<"owl:Thing">>)

\* g.subjects(p, o)
Subjects(g, p, o) == {t[1] : t \in {x \in g : x[2] = p /\ x[3] = o}}

\* g.objects(s, p)
Objects(g, s, p) == {t[3] : t \in {x \in g : x[1] = s /\ x[2] = p}}

(***************************************************************************)
(* The graph store's behaviour while one query is executed: graph.query    *)
(* either answers ("none") or raises an exception of some class.           *)
(***************************************************************************)

\* The exception classes named by the except clauses of the two query functions.
CaughtExceptions == {"TypeError", "ValueError", "AttributeError", "KeyError"}

\* Exception classes the store can raise while it executes a query; OSError
\* (an I/O fault of the store) is not a subclass of any caught class.
StoreExceptions == CaughtExceptions \cup {"OSError"}

\* Characters SPARQL's IRIREF does not admit between < and > (besides the
\* four the validation rejects): graph.query raises pyparsing's
\* ParseException, no subclass of a caught class, on a query text that has
\* one inside the interpolated identifier.
IriRefForbidden == {"{", "}", "|", "^", "\\", " "}

\* Whether the query text built from uri_str parses.
QueryParses(uri_str) == \A i \in 1..Len(uri_str) : uri_str[i] \notin IriRefForbidden

Answers == "none"

StoreOutcomes == {Answers} \cup StoreExceptions

(***************************************************************************)
(* Closure resolution: pattern_generator.get_subclass_uris                 *)
(***************************************************************************)

HTTP == <<"h", "t", "t", "p", ":", "/", "/">>

HTTPS == <<"h", "t", "t", "p", "s", ":", "/", "/">>

InjectionChars == {">", "<", "\"", "'"}

InvalidUriFormatSchemeOnly(uri_str) ==
    ~(StartsWith(uri_str, HTTP) \/ StartsWith(uri_str, HTTPS))

\* The guard of both query functions: True when the identifier is rejected.
InvalidUriFormat(uri_str) ==
    \/ ~(StartsWith(uri_str, HTTP) \/ StartsWith(uri_str, HTTPS))
    \/ \E i \in 1..Len(uri_str) : uri_str[i] \in InjectionChars

\* ?class rdfs:subClassOf <x> for some x in S
Children(g, S) == {t[1] : t \in {x \in g : x[2] = RDFS_subClassOf /\ x[3] \in S}}

\* The four UNION branches of the query, joined with "?class a owl:Class".
ClassRowsTwoLevels(g, uri_str) ==
    LET level0 == {Uri(uri_str)}
        level1 == Children(g, level0)
        level2 == Children(g, level1)
    IN  {c \in level0 \cup level1 \cup level2 : <<c, RDF_type, OWL_Class>> \in g}

ClassRowsUnfiltered(g, uri_str) ==
    LET level0 == {Uri(uri_str)}
        level1 == Children(g, level0)
        level2 == Children(g, level1)
        level3 == Children(g, level2)
    IN  level0 \cup level1 \cup level2 \cup level3

ClassRows(g, uri_str) ==
    LET level0 == {Uri(uri_str)}
        level1 == Children(g, level0)
        level2 == Children(g, level1)
        level3 == Children(g, level2)
    IN  {c \in level0 \cup level1 \cup level2 \cup level3 :
            <<c, RDF_type, OWL_Class>> \in g}

\* The outcome of one call: the exception that left the function ("none" when
\* it returned), the value returned, and the identifiers interpolated into
\* query text that was handed to graph.query.
Raise(e, q) == [called |-> TRUE, exc |-> e, value |-> {}, queried |-> q]

Return(v, q) == [called |-> TRUE, exc |-> "none", value |-> v, queried |-> q]

NotCalled == [called |-> FALSE, exc |-> "none", value |-> {}, queried |-> {}]

\* get_subclass_uris(graph, root_uri) with the store behaving as `store`.
\* The returned list is list(set): its order is arbitrary and every caller
\* takes set() of it, so the value is kept as the set of its elements.
get_subclass_uris(g, uri_str, store) ==
    IF InvalidUriFormat(uri_str) THEN Raise("ValueError", {})
    ELSE IF ~QueryParses(uri_str) THEN Raise("ParseException", {uri_str})
    ELSE IF store = Answers
         THEN Return({r.v : r \in {x \in ClassRows(g, uri_str) : Len(x.v) > 0}}, {uri_str})
    ELSE IF store \in CaughtExceptions THEN Return({}, {uri_str})
    ELSE Raise(store, {uri_str})

(***************************************************************************)
(* Specification SpecClosure: get_subclass_uris on every subclass graph of *)
(* NumNodes nodes in which a node has at most one parent (self loops and   *)
(* cycles included) and the root, one other node or both are not typed    *)
(* owl:Class.                                                              *)
(***************************************************************************)

NumNodes == 5

NodeNames == <<"A", "B", "C", "D", "E", "F", "G", "H">>

ShortNamespace == <<"h", "t", "t", "p", ":", "/", "/", "o", "/">>

NodeUri(i) == ShortNamespace \o <<NodeNames[i]>>

Node(i) == Uri(NodeUri(i))

\* parent[i] = 0: node i has no parent.
ParentGraph(parent, nonclass) ==
    {<<Node(i), RDFS_subClassOf, Node(parent[i])>> : i \in {j \in 1..NumNodes : parent[j] # 0}}
    \cup {<<Node(i), RDF_type, OWL_Class>> : i \in (1..NumNodes) \ nonclass}

IdleMain ==
    /\ document = <<>>
    /\ config = <<>>
    /\ pc = "idle"
    /\ raised = "none"
    /\ cat_idx = 0
    /\ root_idx = 0
    /\ cat_labels = {}
    /\ cat_uris = EmptyBag
    /\ patterns = <<>>
    /\ calls = {}

\* find_ambiguous_labels has not run.
NotScanned == [done |-> FALSE, groups |-> <<>>]

IdleAmbiguity == ambiguous = NotScanned

IdleCompile ==
    /\ labels_in = {}
    /\ uris_in = {}
    /\ regex_outs = {}
    /\ values_outs = {}

InitClosure ==
    /\ \E parent \in [1..NumNodes -> 0..NumNodes], nonclass \in {{}, {1}, {2}, {1, 2}} :
          graph = ParentGraph(parent, nonclass)
    /\ root_uri = NodeUri(1)
    /\ closure_out = NotCalled
    /\ IdleCompile
    /\ IdleMain
    /\ IdleAmbiguity

\* The call get_subclass_uris(graph, root_uri); here the store answers.
Resolve ==
    /\ ~closure_out.called
    /\ closure_out' = get_subclass_uris(graph, root_uri, Answers)
    /\ UNCHANGED <<graph, root_uri, compileVars, mainVars, ambiguous>>

NextClosure == Resolve

SpecClosure == InitClosure /\ [][NextClosure]_vars

\* Whether c reaches root by following at most k subclass edges child -> parent.
RECURSIVE HopsTo(_, _, _, _)
HopsTo(g, c, root, k) ==
    \/ c = root
    \/ k > 0 /\ \E p \in Objects(g, c, RDFS_subClassOf) : HopsTo(g, p, root, k - 1)

\* The number of edges of c's shortest chain to root; -1 when there is none.
ShortestChain(g, c, root) ==
    IF HopsTo(g, c, root, NumNodes)
    THEN CHOOSE k \in 0..NumNodes :
            HopsTo(g, c, root, k) /\ (k = 0 \/ ~HopsTo(g, c, root, k - 1))
    ELSE -1

RecognizedClasses(g) == Subjects(g, RDF_type, OWL_Class)

\* C1: when the closure query is answered, get_subclass_uris returns exactly
\* the recognized classes whose shortest child->parent chain to the root has
\* between 0 and 3 edges: a class 3 edges away is a member, a class whose
\* chains all have 4 or more edges (or that has none) is not, cycles included.
C1_ClosureIsThreeLevels ==
    closure_out.called =>
        /\ closure_out.exc = "none"
        /\ closure_out.value =
              {c.v : c \in {x \in RecognizedClasses(graph) :
                              ShortestChain(graph, x, Uri(root_uri)) \in 0..3}}
        /\ \A c \in RecognizedClasses(graph) :
              /\ ShortestChain(graph, c, Uri(root_uri)) = 3 => c.v \in closure_out.value
              /\ ShortestChain(graph, c, Uri(root_uri)) >= 4 => c.v \notin closure_out.value

\* A cyclic graph in which one class is 3 edges from the root and is returned
\* and another class is 4 edges from the root and is left out.
C1_Witness ==
    /\ closure_out.called
    /\ \E c \in RecognizedClasses(graph) :
          ShortestChain(graph, c, Uri(root_uri)) = 3 /\ c.v \in closure_out.value
    /\ \E c \in RecognizedClasses(graph) :
          ShortestChain(graph, c, Uri(root_uri)) = 4 /\ c.v \notin closure_out.value
    /\ \E p \in Objects(graph, Uri(root_uri), RDFS_subClassOf) :
          HopsTo(graph, p, Uri(root_uri), NumNodes)

\* The nodes with a subclass edge to the root.
DirectChildren(g, root) == Subjects(g, RDFS_subClassOf, root)

\* C12: every member of a closure result is a recognized class; a
\* recognized class within 3 subclass edges of the root is a member whether
\* or not the root and the nodes between them are classes; when no node has
\* a subclass edge to the root the result is {root} if the root is a
\* recognized class and empty if it is not.
C12_NonClassRoot ==
    closure_out.called =>
        /\ closure_out.exc = "none"
        /\ \A u \in closure_out.value : Uri(u) \in RecognizedClasses(graph)
        /\ \A c \in RecognizedClasses(graph) :
              HopsTo(graph, c, Uri(root_uri), 3) => c.v \in closure_out.value
        /\ DirectChildren(graph, Uri(root_uri)) = {} =>
              closure_out.value = IF Uri(root_uri) \in RecognizedClasses(graph)
                                  THEN {root_uri} ELSE {}

\* A root that is no class, with a child that is no class either, whose own
\* child is a class and is returned, the root being left out.
C12_Witness ==
    /\ closure_out.called
    /\ Uri(root_uri) \notin RecognizedClasses(graph)
    /\ root_uri \notin closure_out.value
    /\ \E m \in DirectChildren(graph, Uri(root_uri)) \ RecognizedClasses(graph) :
          \E c \in DirectChildren(graph, m) \cap RecognizedClasses(graph) :
              /\ c.v \in closure_out.value
              /\ ShortestChain(graph, c, Uri(root_uri)) = 2

(***************************************************************************)
(* Pattern compilation: generate_regex_pattern, generate_values_clause     *)
(***************************************************************************)

\* The characters re.escape prefixes with a backslash (the printable ones).
ReSpecialChars ==
    {"(", ")", "[", "]", "{", "}", "?", "*", "+", "-", "|", "^", "$", "\\", ".", "&",
     "~", "#", " "}

RECURSIVE re_escape_no_bar(_)
re_escape_no_bar(str) ==
    IF str = <<>> THEN <<>>
    ELSE (IF Head(str) \in ReSpecialChars \ {"|"} THEN <<"\\", Head(str)>> ELSE <<Head(str)>>)
         \o re_escape_no_bar(Tail(str))

RECURSIVE re_escape(_)
\* re.escape(label)
re_escape(str) ==
    IF str = <<>> THEN <<>>
    ELSE (IF Head(str) \in ReSpecialChars THEN <<"\\", Head(str)>> ELSE <<Head(str)>>)
         \o re_escape(Tail(str))

AnchorOpen == <<"\\", "b", "(", "?", ":">>

AnchorClose == <<")", "\\", "b">>

generate_regex_pattern_unguarded(labels_iter) ==
    LET ordered == sorted(labels_iter)
        escaped == [i \in 1..Len(ordered) |-> re_escape(ordered[i])]
    IN  AnchorOpen \o Join(<<"|">>, escaped) \o AnchorClose

\* generate_regex_pattern(labels); labels_iter is the order in which the set
\* is iterated by sorted().
generate_regex_pattern(labels_iter) ==
    IF labels_iter = <<>> THEN <<>>
    ELSE LET ordered == sorted(labels_iter)
             escaped == [i \in 1..Len(ordered) |-> re_escape(ordered[i])]
             pattern == Join(<<"|">>, escaped)
         IN  AnchorOpen \o pattern \o AnchorClose

ValuesOpen ==
    <<"V", "A", "L", "U", "E", "S", " ", "?", "t", "a", "r", "g", "e", "t", "C", "l",
      "a", "s", "s", " ", "{">>

\* generate_values_clause(uris); uris is a list.
generate_values_clause(uris) ==
    IF uris = <<>> THEN ValuesOpen \o <<" ", "}">>
    ELSE LET ordered == sorted(uris)
             formatted == Join(<<" ">>, [i \in 1..Len(ordered) |-> <<"<">> \o ordered[i] \o <<">">>])
         IN  ValuesOpen \o <<" ">> \o formatted \o <<" ", "}">>

(***************************************************************************)
(* Specification SpecCompile: the two compilers applied, any number of     *)
(* times and in any iteration order, to one label set and one identifier   *)
(* set.                                                                    *)
(***************************************************************************)

MaxLabelLen == 2

MaxSetSize == 2

LabelAlphabet == {"a", "|", "\\"}

LabelStrings == UNION {[1..n -> LabelAlphabet] : n \in 0..MaxLabelLen}

LabelSets == UNION {{Range(f) : f \in [1..n -> LabelStrings]} : n \in 0..MaxSetSize}

UriSets == SUBSET {NodeUri(1), NodeUri(2), ShortNamespace \o <<"a">>}

IdleClosure ==
    /\ graph = {}
    /\ root_uri = <<>>
    /\ closure_out = NotCalled

InitCompile ==
    /\ labels_in \in LabelSets
    /\ uris_in \in UriSets
    /\ regex_outs = {}
    /\ values_outs = {}
    /\ IdleClosure
    /\ IdleMain
    /\ IdleAmbiguity

\* One call generate_regex_pattern(labels_in), the set iterated in some order.
CompileRegex ==
    /\ \E order \in IterOrders(labels_in) :
          regex_outs' = regex_outs \cup {generate_regex_pattern(order)}
    /\ UNCHANGED <<graph, closureVars, labels_in, uris_in, values_outs, mainVars, ambiguous>>

\* One call generate_values_clause(list), the list being some ordering of uris_in.
CompileValues ==
    /\ \E order \in IterOrders(uris_in) :
          values_outs' = values_outs \cup {generate_values_clause(order)}
    /\ UNCHANGED <<graph, closureVars, labels_in, uris_in, regex_outs, mainVars, ambiguous>>

NextCompile == CompileRegex \/ CompileValues

SpecCompile == InitCompile /\ [][NextCompile]_vars

EndsWith(s, p) == Len(s) >= Len(p) /\ SubSeq(s, Len(s) - Len(p) + 1, Len(s)) = p

\* The pattern between the anchors \b(?: and )\b.
StripAnchors(out) ==
    IF StartsWith(out, AnchorOpen) /\ EndsWith(out, AnchorClose)
          /\ Len(out) >= Len(AnchorOpen) + Len(AnchorClose)
    THEN SubSeq(out, Len(AnchorOpen) + 1, Len(out) - Len(AnchorClose))
    ELSE out

RECURSIVE SplitEveryBar(_, _)
\* str.split("|"): cut at every "|" character; cur is the piece being read.
SplitEveryBar(str, cur) ==
    IF str = <<>> THEN <<cur>>
    ELSE IF Head(str) = "|" THEN <<cur>> \o SplitEveryBar(Tail(str), <<>>)
    ELSE SplitEveryBar(Tail(str), Append(cur, Head(str)))

RECURSIVE SplitAlternation(_, _)
\* Cut at the "|" characters that are not escaped by a backslash.
SplitAlternation(str, cur) ==
    IF str = <<>> THEN <<cur>>
    ELSE IF Head(str) = "\\" /\ Len(str) >= 2
         THEN SplitAlternation(Tail(Tail(str)), cur \o <<str[1], str[2]>>)
    ELSE IF Head(str) = "|" THEN <<cur>> \o SplitAlternation(Tail(str), <<>>)
    ELSE SplitAlternation(Tail(str), Append(cur, Head(str)))

RECURSIVE Unescape(_)
\* Drop each escaping backslash and keep the character it escapes.
Unescape(str) ==
    IF str = <<>> THEN <<>>
    ELSE IF Head(str) = "\\" /\ Len(str) >= 2 THEN <<str[2]>> \o Unescape(Tail(Tail(str)))
    ELSE <<Head(str)>> \o Unescape(Tail(str))

\* C6 as stated: the output of generate_regex_pattern (taken without its
\* anchors, the empty output standing for the empty set), split on "|" and
\* each piece unescaped, is exactly the original label set, also for labels
\* that contain "|" or a backslash.
C6_SplitOnBarRoundTrip ==
    \A out \in regex_outs :
        IF out = <<>> THEN labels_in = {}
        ELSE {Unescape(piece) : piece \in Range(SplitEveryBar(StripAnchors(out), <<>>))}
                = labels_in

\* C6 amended: the empty set compiles to the empty string; a non-empty set
\* compiles to \b(?:P)\b, and P cut at the "|" that no backslash escapes,
\* each piece unescaped, is exactly the original label set.
C6_AnchoredRoundTrip ==
    \A out \in regex_outs :
        /\ (out = <<>>) <=> (labels_in = {})
        /\ out # <<>> =>
              /\ StartsWith(out, AnchorOpen) /\ EndsWith(out, AnchorClose)
              /\ {Unescape(piece) :
                    piece \in Range(SplitAlternation(StripAnchors(out), <<>>))} = labels_in

\* Two labels compiled, one holding "|" and one ending in a backslash.
C6_Witness ==
    /\ regex_outs # {}
    /\ Cardinality(labels_in) >= 2
    /\ \E l \in labels_in : \E i \in 1..Len(l) : l[i] = "|"
    /\ \E l \in labels_in : Len(l) > 0 /\ l[Len(l)] = "\\"

\* "<u1> <u2> ... " for a sequence of identifiers.
RECURSIVE Bracketed(_)
Bracketed(s) ==
    IF s = <<>> THEN <<>> ELSE <<"<">> \o Head(s) \o <<">", " ">> \o Bracketed(Tail(s))

StrictlyIncreasing(s) == \A i \in 1..(Len(s) - 1) : LexLess(s[i], s[i + 1])

\* C7: whatever the order of the input, generate_values_clause returns one and
\* the same string, listing the identifiers in lexicographic order, each as
\* <uri>; generate_regex_pattern returns one and the same string for every
\* iteration order of the label set.
C7_OrderIndependent ==
    /\ Cardinality(values_outs) <= 1
    /\ Cardinality(regex_outs) <= 1
    /\ \A out \in values_outs :
          \E s \in IterOrders(uris_in) :
              /\ StrictlyIncreasing(s)
              /\ out = ValuesOpen \o <<" ">> \o Bracketed(s) \o <<"}">>

\* Both compilers have run on inputs of two or more elements.
C7_Witness ==
    /\ Cardinality(uris_in) >= 2 /\ values_outs # {}
    /\ Cardinality(labels_in) >= 2 /\ regex_outs # {}

(***************************************************************************)
(* Label collection: pattern_generator.get_subclass_labels                 *)
(***************************************************************************)

\* The whitespace str.strip() removes (the printable one).
Whitespace == {" "}

RECURSIVE lstrip(_)
lstrip(str) ==
    IF str # <<>> /\ Head(str) \in Whitespace THEN lstrip(Tail(str)) ELSE str

RECURSIVE rstrip(_)
rstrip(str) ==
    IF str # <<>> /\ str[Len(str)] \in Whitespace
    THEN rstrip(SubSeq(str, 1, Len(str) - 1))
    ELSE str

\* str.strip()
strip(str) == rstrip(lstrip(str))

LabelPredicatesPrimaryOnly == {RDFS_label}

\* The three UNION branches "?class rdfs:label|skos:altLabel|skos:prefLabel ?label".
LabelPredicates == {RDFS_label, SKOS_altLabel, SKOS_prefLabel}

\* The rows of the label query: ?label of every class of the four levels.
LabelRows(g, uri_str) ==
    UNION {Objects(g, c, p) : c \in ClassRows(g, uri_str), p \in LabelPredicates}

KeepLabelAnyLength(label_str) == Len(label_str) > 0

\* "if label_str and len(label_str) > 1"
KeepLabel(label_str) == Len(label_str) > 0 /\ Len(label_str) > 1

\* get_subclass_labels(graph, root_uri) with the store behaving as `store`.
get_subclass_labels(g, uri_str, store) ==
    IF InvalidUriFormat(uri_str) THEN Raise("ValueError", {})
    ELSE IF ~QueryParses(uri_str) THEN Raise("ParseException", {uri_str})
    ELSE IF store = Answers
         THEN LET truthy == {r \in LabelRows(g, uri_str) : Len(r.v) > 0}
                  cleaned == {strip(r.v) : r \in truthy}
              IN  Return({l \in cleaned : KeepLabel(l)}, {uri_str})
    ELSE IF store \in CaughtExceptions THEN Return({}, {uri_str})
    ELSE Raise(store, {uri_str})

(***************************************************************************)
(* Configuration: Python values, load_config, get_default_config           *)
(***************************************************************************)

\* Python values as yaml.safe_load builds them.  A dict keeps its items in
\* insertion order, as pairs <<key, value>>.
PyStr(chars) == [t |-> "str", v |-> chars]

PyList(items) == [t |-> "list", v |-> items]

PyDict(items) == [t |-> "dict", v |-> items]

PyNone == [t |-> "none", v |-> <<>>]

\* Display text the scripts only copy (never measured, split or compared by
\* character) is kept in one piece.
Text(words) == <<words>>

\* key in d
PyHas(d, key) == \E i \in 1..Len(d.v) : d.v[i][1] = key

\* d.get(key, default)
PyGet(d, key, default) ==
    IF PyHas(d, key) THEN d.v[CHOOSE i \in 1..Len(d.v) : d.v[i][1] = key][2] ELSE default

\* OSC, and the default of config.get("namespace", ...)
OSC ==
    <<"h", "t", "t", "p", "s", ":", "/", "/", "o", "n", "t", "o", "l", "o", "g", "y",
      ".", "c", "a", "t", "h", "o", "l", "i", "c", "o", "s", ".", "c", "a", "t", "h",
      "o", "l", "i", "c", "/">>

CategoryConfig(label, roots) ==
    PyDict(<< <<"label", PyStr(Text(label))>>, <<"root_classes", PyList(roots)>> >>)

RootClass(id, label) == PyDict(<< <<"id", PyStr(id)>>, <<"label", PyStr(Text(label))>> >>)

ClergyId ==
    <<"R", "C", "h", "K", "P", "k", "9", "K", "1", "5", "2", "B", "i", "r", "r", "I",
      "Y", "g", "A", "R", "E", "s", "Y">>

ConsecratedPersonsId ==
    <<"R", "D", "U", "O", "Y", "P", "s", "M", "T", "j", "L", "K", "T", "8", "X", "T",
      "p", "6", "o", "H", "H", "2", "o">>

SacramentsId ==
    <<"R", "B", "9", "1", "I", "r", "5", "b", "S", "O", "s", "o", "H", "y", "a", "G",
      "c", "c", "O", "R", "D", "p", "Q">>

LiturgyId ==
    <<"R", "D", "i", "Y", "A", "0", "x", "2", "k", "A", "u", "b", "W", "5", "c", "D",
      "d", "O", "R", "4", "o", "Z", "V">>

CanonLawSystemId ==
    <<"R", "D", "C", "W", "f", "U", "Y", "X", "x", "1", "1", "4", "d", "8", "A", "d",
      "y", "J", "Q", "m", "b", "z", "H">>

get_default_config ==
    PyDict(<<
        <<"namespace", PyStr(OSC)>>,
        <<"categories", PyDict(<<
            <<"church_hierarchy",
              CategoryConfig("Church Hierarchy", <<RootClass(ClergyId, "Clergy")>>)>>,
            <<"consecrated_life",
              CategoryConfig("Consecrated Life",
                             <<RootClass(ConsecratedPersonsId, "Consecrated Persons")>>)>>,
            <<"sacraments",
              CategoryConfig("Sacraments", <<RootClass(SacramentsId, "Sacraments")>>)>>,
            <<"liturgy", CategoryConfig("Liturgy", <<RootClass(LiturgyId, "Liturgy")>>)>>,
            <<"canon_law",
              CategoryConfig("Canon Law", <<RootClass(CanonLawSystemId, "Canon Law System")>>)>>
        >>)>>
    >>)

\* The configuration file as load_config finds it: PyYAML not installed,
\* no file at config_path, a file yaml.safe_load rejects, or a file it loads.
NoYaml == [state |-> "no_yaml", value |-> PyNone]

NoFile == [state |-> "missing", value |-> PyNone]

Malformed == [state |-> "malformed", value |-> PyNone]

Loaded(value) == [state |-> "loaded", value |-> value]

\* load_config(config_path): the exception that leaves it, or the dict returned.
load_config(doc) ==
    IF doc.state = "no_yaml" THEN [exc |-> "none", value |-> get_default_config]
    ELSE IF doc.state = "missing" THEN [exc |-> "none", value |-> get_default_config]
    ELSE IF doc.state = "malformed" THEN [exc |-> "YAMLError", value |-> PyNone]
    ELSE IF doc.value.t # "dict" THEN [exc |-> "none", value |-> get_default_config]
    ELSE IF ~PyHas(doc.value, "categories") \/ PyGet(doc.value, "categories", PyNone).t # "dict"
         THEN [exc |-> "none", value |-> get_default_config]
    ELSE [exc |-> "none", value |-> doc.value]

(***************************************************************************)
(* Catalog build: pattern_generator.generate_patterns, run by main()       *)
(***************************************************************************)

\* str(x) inside the f-string that builds the root identifier.
FormatValue(x) == IF x.t = "str" THEN x.v ELSE <<"N", "o", "n", "e">>

\* config.get("namespace", "https://ontology.catholicos.catholic/")
NamespaceOf(cfg) == FormatValue(PyGet(cfg, "namespace", PyStr(OSC)))

\* config.get("categories", {}).items()
CategoriesOf(cfg) == PyGet(cfg, "categories", PyDict(<<>>)).v

\* The roots "for root in cat_config.get('root_classes', [])" iterates, or
\* the exception the expression raises.
RootClassesOf(cat_config) ==
    IF cat_config.t # "dict" THEN [exc |-> "AttributeError", value |-> <<>>]
    ELSE LET rc == PyGet(cat_config, "root_classes", PyList(<<>>))
         IN  IF rc.t = "list" THEN [exc |-> "none", value |-> rc.v]
             ELSE IF rc.t = "dict"
                  THEN [exc |-> "none",
                        value |-> [i \in 1..Len(rc.v) |-> PyStr(Text(rc.v[i][1]))]]
             ELSE IF rc.t = "str"
                  THEN [exc |-> "none", value |-> [i \in 1..Len(rc.v) |-> PyStr(<<rc.v[i]>>)]]
             ELSE [exc |-> "TypeError", value |-> <<>>]

\* URIRef(f"{namespace}{root_id}") with root_id = root.get("id", "")
RootUriOf(cfg, root) == NamespaceOf(cfg) \o FormatValue(PyGet(root, "id", PyStr(<<>>)))

RECURSIVE BagToSeq(_)
\* The elements of a list kept as a bag, each as often as it occurs.
BagToSeq(B) ==
    IF BagToSet(B) = {} THEN <<>>
    ELSE LET x == CHOOSE y \in BagToSet(B) : TRUE
         IN  <<x>> \o BagToSeq(B (-) SetToBag({x}))

CategoryEntryNoSet(cat_name, cat_config, labels, uris) ==
    [name |-> cat_name,
     label |-> PyGet(cat_config, "label", PyStr(Text(cat_name))),
     description |-> PyGet(cat_config, "description", PyStr(<<>>)),
     labels |-> sorted(IterOrder(labels)),
     label_count |-> Cardinality(labels),
     regex |-> generate_regex_pattern(IterOrder(labels)),
     class_uris |-> sorted(BagToSeq(uris)),
     class_count |-> Len(BagToSeq(uris)),
     values_clause |-> generate_values_clause(BagToSeq(uris))]

\* patterns["categories"][cat_name] = {...}; uris is the list cat_uris, kept
\* as a bag because the code only reads set(cat_uris).
CategoryEntry(cat_name, cat_config, labels, uris) ==
    [name |-> cat_name,
     label |-> PyGet(cat_config, "label", PyStr(Text(cat_name))),
     description |-> PyGet(cat_config, "description", PyStr(<<>>)),
     labels |-> sorted(IterOrder(labels)),
     label_count |-> Cardinality(labels),
     regex |-> generate_regex_pattern(IterOrder(labels)),
     class_uris |-> sorted(IterOrder(BagToSet(uris))),
     class_count |-> Cardinality(BagToSet(uris)),
     values_clause |-> generate_values_clause(IterOrder(BagToSet(uris)))]

\* One entry of the history: the call fn(graph, uri) made for root number
\* `root` of category number `cat`, whether graph.query raised while executing
\* its query, and the call's outcome.
CallRecord(fn, uri, store, out) ==
    [cat |-> cat_idx, root |-> root_idx, fn |-> fn, uri |-> uri,
     faulted |-> (out.queried # {} /\ (store # Answers \/ out.exc # "none")),
     exc |-> out.exc, value |-> out.value, queried |-> out.queried]

\* The number of queries of the run during which the store raised.
Faults == Cardinality({c \in calls : c.faulted})

MaxFaults == 1

CurrentCategory == CategoriesOf(config)[cat_idx]

CurrentRoots == RootClassesOf(CurrentCategory[2]).value

\* main(): config = load_config(args.config), then generate_patterns starts
\* with an empty patterns["categories"].
LoadConfig ==
    /\ pc = "main"
    /\ LET loaded == load_config(document)
       IN  IF loaded.exc # "none"
           THEN /\ pc' = "raised"
                /\ raised' = loaded.exc
                /\ UNCHANGED <<config, cat_idx>>
           ELSE /\ pc' = "next_category"
                /\ config' = loaded.value
                /\ cat_idx' = 1
                /\ UNCHANGED raised
    /\ UNCHANGED <<graph, closureVars, compileVars, ambiguous, document, root_idx,
                   cat_labels, cat_uris, patterns, calls>>

\* The head of "for cat_name, cat_config in categories.items()" up to the
\* head of "for root in root_classes".
BeginCategory ==
    /\ pc = "next_category"
    /\ cat_idx <= Len(CategoriesOf(config))
    /\ LET roots == RootClassesOf(CurrentCategory[2])
       IN  IF roots.exc # "none"
           THEN /\ pc' = "raised"
                /\ raised' = roots.exc
                /\ UNCHANGED <<root_idx, cat_labels, cat_uris>>
           ELSE /\ pc' = "root_labels"
                /\ root_idx' = 1
                /\ cat_labels' = {}
                /\ cat_uris' = EmptyBag
                /\ UNCHANGED raised
    /\ UNCHANGED <<graph, closureVars, compileVars, ambiguous, document, config, cat_idx,
                   patterns, calls>>

\* root.get("id", ""), then labels = get_subclass_labels(graph, root_uri) and
\* cat_labels.update(labels).
QueryLabels ==
    /\ pc = "root_labels"
    /\ root_idx <= Len(CurrentRoots)
    /\ \E store \in StoreOutcomes :
          /\ store # Answers => Faults < MaxFaults
          /\ IF CurrentRoots[root_idx].t # "dict"
             THEN /\ pc' = "raised"
                  /\ raised' = "AttributeError"
                  /\ UNCHANGED <<cat_labels, calls>>
             ELSE LET uri == RootUriOf(config, CurrentRoots[root_idx])
                      out == get_subclass_labels(graph, uri, store)
                  IN  /\ calls' = calls \cup {CallRecord("get_subclass_labels", uri, store, out)}
                      /\ IF out.exc # "none"
                         THEN /\ pc' = "raised"
                              /\ raised' = out.exc
                              /\ UNCHANGED cat_labels
                         ELSE /\ pc' = "root_uris"
                              /\ cat_labels' = cat_labels \cup out.value
                              /\ UNCHANGED raised
    /\ UNCHANGED <<graph, closureVars, compileVars, ambiguous, document, config, cat_idx,
                   root_idx, cat_uris, patterns>>

\* uris = get_subclass_uris(graph, root_uri) and cat_uris.extend(uris), then
\* the next root.
QueryUris ==
    /\ pc = "root_uris"
    /\ \E store \in StoreOutcomes :
          /\ store # Answers => Faults < MaxFaults
          /\ LET uri == RootUriOf(config, CurrentRoots[root_idx])
                 out == get_subclass_uris(graph, uri, store)
             IN  /\ calls' = calls \cup {CallRecord("get_subclass_uris", uri, store, out)}
                 /\ IF out.exc # "none"
                    THEN /\ pc' = "raised"
                         /\ raised' = out.exc
                         /\ UNCHANGED <<cat_uris, root_idx>>
                    ELSE /\ pc' = "root_labels"
                         /\ cat_uris' = cat_uris (+) SetToBag(out.value)
                         /\ root_idx' = root_idx + 1
                         /\ UNCHANGED raised
    /\ UNCHANGED <<graph, closureVars, compileVars, ambiguous, document, config, cat_idx,
                   cat_labels, patterns>>

\* After the last root: patterns["categories"][cat_name] = {...}.
EmitCategory ==
    /\ pc = "root_labels"
    /\ root_idx > Len(CurrentRoots)
    /\ patterns' = Append(patterns,
                          CategoryEntry(CurrentCategory[1], CurrentCategory[2],
                                        cat_labels, cat_uris))
    /\ cat_idx' = cat_idx + 1
    /\ pc' = "next_category"
    /\ UNCHANGED <<graph, closureVars, compileVars, ambiguous, document, config, raised,
                   root_idx, cat_labels, cat_uris, calls>>

\* After the last category: return patterns; main() writes the document.
ReturnPatterns ==
    /\ pc = "next_category"
    /\ cat_idx > Len(CategoriesOf(config))
    /\ pc' = "done"
    /\ UNCHANGED <<graph, closureVars, compileVars, ambiguous, document, config, raised,
                   cat_idx, root_idx, cat_labels, cat_uris, patterns, calls>>

(***************************************************************************)
(* Specification Spec: one run of main() on an ontology and a              *)
(* configuration file.                                                     *)
(***************************************************************************)

\* An ontology in the namespace http://o/: class A labelled "Aa", with an
\* alternate label of one character and a space and a preferred label that
\* is a single space; its subclass B with a label to trim, a one-character
\* alternate label and a preferred label equal to A's; C, a subclass of B
\* that is no owl:Class.
SmallOntology ==
    {<<Node(1), RDF_type, OWL_Class>>,
     <<Node(1), RDFS_label, Literal(<<"A", "a">>)>>,
     <<Node(1), SKOS_altLabel, Literal(<<"c", " ">>)>>,
     <<Node(1), SKOS_prefLabel, Literal(<<" ">>)>>,
     <<Node(2), RDF_type, OWL_Class>>,
     <<Node(2), RDFS_subClassOf, Node(1)>>,
     <<Node(2), RDFS_label, Literal(<<" ", "B", "b">>)>>,
     <<Node(2), SKOS_altLabel, Literal(<<"b">>)>>,
     <<Node(2), SKOS_prefLabel, Literal(<<"A", "a">>)>>,
     <<Node(3), RDFS_subClassOf, Node(2)>>,
     <<Node(3), RDFS_label, Literal(<<"C", "c">>)>>}

Clergy == Uri(OSC \o ClergyId)

Bishop == Uri(OSC \o <<"R", "B">>)

Priest == Uri(OSC \o <<"R", "P">>)

\* An ontology in the namespace of the default configuration: the root
\* Clergy with the direct children Bishop and Priest, one alternate label each.
ClergyOntology ==
    {<<Clergy, RDF_type, OWL_Class>>,
     <<Clergy, RDFS_label, Literal(<<"C", "l", "e", "r", "g", "y">>)>>,
     <<Bishop, RDF_type, OWL_Class>>,
     <<Bishop, RDFS_subClassOf, Clergy>>,
     <<Bishop, RDFS_label, Literal(<<"B", "i", "s", "h", "o", "p">>)>>,
     <<Bishop, SKOS_altLabel, Literal(<<"O", "r", "d", "i", "n", "a", "r", "y">>)>>,
     <<Priest, RDF_type, OWL_Class>>,
     <<Priest, RDFS_subClassOf, Clergy>>,
     <<Priest, RDFS_label, Literal(<<"P", "r", "i", "e", "s", "t">>)>>,
     <<Priest, SKOS_altLabel, Literal(<<"P", "r", "e", "s", "b", "y", "t", "e", "r">>)>>}

\* The same hierarchy with a root that carries no label of its own.
BareClergyOntology ==
    ClergyOntology \ {t \in ClergyOntology : t[1] = Clergy /\ t[2] \in LabelPredicates}

Ontologies == {SmallOntology, ClergyOntology, BareClergyOntology, {}}

\* The categories configuration files are assembled from: one root, two
\* roots with overlapping closures, no root, a root the ontology does not
\* know, a root identifier with a quote, and one with a space.
CategoryPool ==
    {<<"alpha", CategoryConfig("Alpha", <<RootClass(<<"A">>, "A")>>)>>,
     <<"both", CategoryConfig("Both", <<RootClass(<<"A">>, "A"), RootClass(<<"B">>, "B")>>)>>,
     <<"none", CategoryConfig("None", <<>>)>>,
     <<"unknown", CategoryConfig("Unknown", <<RootClass(<<"H">>, "H")>>)>>,
     <<"unsafe", CategoryConfig("Unsafe", <<RootClass(<<"x", "'">>, "x")>>)>>,
     <<"spaced", CategoryConfig("Spaced", <<RootClass(<<"a", " ", "b">>, "a b")>>)>>}

MaxCategories == 2

CategoryLists ==
    UNION {{f \in [1..n -> CategoryPool] : \A i, j \in 1..n : i # j => f[i][1] # f[j][1]} :
             n \in 0..MaxCategories}

ConfigDocument(namespace, categories) ==
    PyDict(<< <<"namespace", PyStr(namespace)>>, <<"categories", PyDict(categories)>> >>)

Alpha == CHOOSE c \in CategoryPool : c[1] = "alpha"

\* Files that load to a mapping with a 'categories' mapping of well-shaped
\* categories.
WellFormedDocuments ==
    {Loaded(ConfigDocument(ShortNamespace, cats)) : cats \in CategoryLists}
    \cup {Loaded(ConfigDocument(<<"f", "t", "p", ":", "/", "/", "o", "/">>, <<Alpha>>)),
          Loaded(PyDict(<< <<"categories", PyDict(<<Alpha>>)>> >>))}

\* Absent files and files of another structure.
OtherDocuments ==
    {NoYaml, NoFile, Malformed,
     Loaded(PyNone),
     Loaded(PyStr(Text("text"))),
     Loaded(PyList(<<>>)),
     Loaded(PyDict(<< <<"namespace", PyStr(ShortNamespace)>> >>)),
     Loaded(PyDict(<< <<"categories", PyList(<<>>)>> >>)),
     Loaded(ConfigDocument(ShortNamespace, << <<"alpha", PyStr(Text("A"))>> >>)),
     Loaded(ConfigDocument(ShortNamespace,
                           << <<"alpha", CategoryConfig("Alpha", <<PyStr(<<"A">>)>>)>> >>)),
     Loaded(ConfigDocument(ShortNamespace,
                           << <<"alpha", PyDict(<< <<"root_classes", PyNone>> >>)>>, Alpha >>))}

Documents == WellFormedDocuments \cup OtherDocuments

Init ==
    /\ graph \in Ontologies
    /\ document \in Documents
    /\ config = <<>>
    /\ pc = "main"
    /\ raised = "none"
    /\ cat_idx = 0
    /\ root_idx = 0
    /\ cat_labels = {}
    /\ cat_uris = EmptyBag
    /\ patterns = <<>>
    /\ calls = {}
    /\ root_uri = <<>>
    /\ closure_out = NotCalled
    /\ IdleCompile
    /\ IdleAmbiguity

Next ==
    \/ LoadConfig
    \/ BeginCategory
    \/ QueryLabels
    \/ QueryUris
    \/ EmitCategory
    \/ ReturnPatterns

Spec == Init /\ [][Next]_vars

\* What the claims call a rejectable identifier: no http:// or https:// at
\* its start, or one of > < " ' anywhere.
Rejectable(u) ==
    \/ ~(\E n \in {7, 8} : Len(u) >= n /\ SubSeq(u, 1, n) \in {HTTP, HTTPS})
    \/ \E i \in 1..Len(u) : u[i] \in {">", "<", "\"", "'"}

\* The classes of the graph within 3 subclass edges of the identifier u.
GraphClosure(u) == {c \in RecognizedClasses(graph) : HopsTo(graph, c, Uri(u), 3)}

\* C3 as stated: a query during which the store raises, for a valid root, ends
\* inside the query function, which returns the empty set; the fault does not
\* leave the function, so it cannot end the run.
C3_StoreFaultIsRecovered ==
    \A c \in calls : c.faulted => c.exc = "none" /\ c.value = {}

\* The entry generate_patterns emits for category number i when the store
\* answers every query.
AnsweredEntry(i) ==
    LET cat == CategoriesOf(config)[i]
        roots == RootClassesOf(cat[2]).value
        uris == [k \in 1..Len(roots) |-> RootUriOf(config, roots[k])]
    IN  CategoryEntry(cat[1], cat[2],
            UNION {get_subclass_labels(graph, uris[k], Answers).value : k \in 1..Len(roots)},
            SetToBag(UNION {get_subclass_uris(graph, uris[k], Answers).value :
                              k \in 1..Len(roots)}))

\* The categories one of whose roots met a store fault or a validation failure.
TroubledCategories == {c.cat : c \in {x \in calls : x.faulted \/ x.exc = "ValueError"}}

\* C4 as stated: when the run has ended and store faults or validation
\* failures struck the roots of one category only, every other category of
\* the configuration has its entry, equal to the entry of a run without fault.
C4_SiblingCategoriesUnaffected ==
    (/\ pc \in {"done", "raised"}
     /\ Cardinality(TroubledCategories) = 1
     /\ pc = "raised" => \E c \in calls : c.exc = raised)
    => \A i \in (1..Len(CategoriesOf(config))) \ TroubledCategories :
          /\ i <= Len(patterns)
          /\ patterns[i] = AnsweredEntry(i)

\* Whether category number i has no root, or only roots whose closure in the
\* graph is empty.
EmptyCategory(i) ==
    LET roots == RootClassesOf(CategoriesOf(config)[i][2]).value
    IN  \A k \in 1..Len(roots) : GraphClosure(RootUriOf(config, roots[k])) = {}

\* C5: the document generate_patterns returns has one entry per category of
\* the configuration, in configuration order; the entry of a category with
\* no root, or whose roots all have an empty closure, has labels = [],
\* label_count = 0, regex = "", class_uris = [], class_count = 0 and the
\* clause "VALUES ?targetClass { }".
C5_EmptyCategoryIsEmitted ==
    /\ pc = "done" =>
          /\ Len(patterns) = Len(CategoriesOf(config))
          /\ \A i \in 1..Len(patterns) : patterns[i].name = CategoriesOf(config)[i][1]
    /\ pc \in {"next_category", "root_labels", "root_uris", "done"} =>
          \A i \in 1..Len(patterns) :
              EmptyCategory(i) =>
                  /\ patterns[i].labels = <<>>
                  /\ patterns[i].label_count = 0
                  /\ patterns[i].regex = <<>>
                  /\ patterns[i].class_uris = <<>>
                  /\ patterns[i].class_count = 0
                  /\ patterns[i].values_clause = ValuesOpen \o <<" ", "}">>

\* A returned document with a category without roots and a category whose
\* only root has an empty closure, while the ontology has classes.
C5_Witness ==
    /\ pc = "done"
    /\ RecognizedClasses(graph) # {}
    /\ \E i \in 1..Len(patterns) :
          RootClassesOf(CategoriesOf(config)[i][2]).value = <<>>
    /\ \E i \in 1..Len(patterns) :
          RootClassesOf(CategoriesOf(config)[i][2]).value # <<>> /\ EmptyCategory(i)

\* C8: in every emitted entry labels and class_uris are strictly increasing
\* (sorted, no duplicate), label_count and class_count are their lengths,
\* and values_clause lists exactly the identifiers of class_uris, once each.
C8_EntryIsSortedAndCounted ==
    \A i \in 1..Len(patterns) :
        /\ StrictlyIncreasing(patterns[i].labels)
        /\ StrictlyIncreasing(patterns[i].class_uris)
        /\ patterns[i].label_count = Len(patterns[i].labels)
        /\ patterns[i].class_count = Len(patterns[i].class_uris)
        /\ patterns[i].values_clause
              = ValuesOpen \o <<" ">> \o Bracketed(patterns[i].class_uris) \o <<"}">>

\* An entry of a category with two roots whose closures overlap.
C8_Witness ==
    \E i \in 1..Len(patterns) :
        LET roots == RootClassesOf(CategoriesOf(config)[i][2]).value
        IN  /\ Len(roots) >= 2
            /\ GraphClosure(RootUriOf(config, roots[1]))
                  \cap GraphClosure(RootUriOf(config, roots[2])) # {}
            /\ patterns[i].class_count >= 2
            /\ patterns[i].label_count >= 2

\* Whether a loaded value is a mapping with a 'categories' mapping of
\* categories that are mappings whose root_classes is a list of mappings.
WellShaped(value) ==
    /\ value.t = "dict"
    /\ PyHas(value, "categories")
    /\ PyGet(value, "categories", PyNone).t = "dict"
    /\ \A i \in 1..Len(PyGet(value, "categories", PyNone).v) :
          LET cat == PyGet(value, "categories", PyNone).v[i][2]
          IN  /\ cat.t = "dict"
              /\ PyGet(cat, "root_classes", PyList(<<>>)).t = "list"
              /\ \A k \in 1..Len(PyGet(cat, "root_classes", PyList(<<>>)).v) :
                    PyGet(cat, "root_classes", PyList(<<>>)).v[k].t = "dict"

DefaultCategoryNames ==
    <<"church_hierarchy", "consecrated_life", "sacraments", "liturgy", "canon_law">>

\* C10 as stated: when the configuration file is absent, or loads to a value
\* that is not well shaped, load_config does not raise and returns the
\* built-in configuration, which has exactly the five default categories with
\* one root each; the loaded value never reaches generate_patterns.
C10_InvalidConfigFallsBack ==
    (/\ pc # "main"
     /\ \/ document.state = "missing"
        \/ document.state = "loaded" /\ ~WellShaped(document.value))
    => /\ raised # "YAMLError"
       /\ config = get_default_config
       /\ [i \in 1..Len(CategoriesOf(config)) |-> CategoriesOf(config)[i][1]]
             = DefaultCategoryNames
       /\ \A i \in 1..Len(CategoriesOf(config)) :
             Len(RootClassesOf(CategoriesOf(config)[i][2]).value) = 1

\* The label values of the graph, as written in it.
RawLabels == {t[3].v : t \in {x \in graph : x[2] \in LabelPredicates}}

\* No whitespace at either end.
Trimmed(l) == l = <<>> \/ (l[1] \notin Whitespace /\ l[Len(l)] \notin Whitespace)

\* l is a label value of the graph with the whitespace at its ends removed
\* and nothing else changed, and it has 2 characters or more.
CleanLabel(l) ==
    /\ Trimmed(l)
    /\ Len(l) >= 2
    /\ \E raw \in RawLabels :
          \E a, b \in 0..Len(raw) :
              /\ raw = [i \in 1..a |-> " "] \o l \o [i \in 1..b |-> " "]

\* C13: every label get_subclass_labels returns, every entry of an emitted
\* labels list and every alternative of an emitted regex is a label value of
\* the graph, trimmed, in its original casing, of 2 characters or more; a
\* value whose trimmed text has 0 or 1 characters is in no labels list.
C13_LabelsTrimmedAndLong ==
    /\ \A c \in calls :
          c.fn = "get_subclass_labels" => \A l \in c.value : CleanLabel(l)
    /\ \A i \in 1..Len(patterns) :
          /\ \A l \in Range(patterns[i].labels) : CleanLabel(l)
          /\ patterns[i].regex # <<>> =>
                {Unescape(a) : a \in Range(SplitAlternation(StripAnchors(patterns[i].regex), <<>>))}
                   = Range(patterns[i].labels)
          /\ \A raw \in RawLabels :
                Len(strip(raw)) <= 1 => strip(raw) \notin Range(patterns[i].labels)

\* An entry for a closure that holds a label to trim, kept with its capital
\* letter, a label of one character, one of one character and a space, and
\* one that is a single space.
C13_Witness ==
    \E i \in 1..Len(patterns) :
        LET roots == RootClassesOf(CategoriesOf(config)[i][2]).value
            rows == UNION {{r.v : r \in LabelRows(graph, RootUriOf(config, roots[k]))} :
                             k \in 1..Len(roots)}
        IN  /\ \E raw \in rows : ~Trimmed(raw) /\ strip(raw) \in Range(patterns[i].labels)
                                   /\ \E n \in 1..Len(raw) : Ord(raw[n]) \in 65..90
            /\ \E raw \in rows : Len(raw) = 1
            /\ \E raw \in rows : Len(raw) = 2 /\ Len(strip(raw)) = 1
            /\ \E raw \in rows : Len(raw) = 1 /\ Len(strip(raw)) = 0
            /\ patterns[i].label_count >= 2

\* Whether the text l is a label, trimmed, of the class with identifier u.
LabelOf(l, u) ==
    \E p \in LabelPredicates : \E lit \in Objects(graph, Uri(u), p) : strip(lit.v) = l

\* C15 as stated: in every emitted entry every string of labels is a label
\* of a class listed in class_uris, and label_count > 0 implies
\* class_count > 0, also when one of the two queries of a root met a store
\* fault and returned the empty set.
C15_LabelsMatchClasses ==
    \A i \in 1..Len(patterns) :
        /\ \A l \in Range(patterns[i].labels) :
              \E u \in Range(patterns[i].class_uris) : LabelOf(l, u)
        /\ patterns[i].label_count > 0 => patterns[i].class_count > 0

\* The labels of the children Bishop and Priest, in code-point order.
ChildLabels ==
    << <<"B", "i", "s", "h", "o", "p">>,
       <<"O", "r", "d", "i", "n", "a", "r", "y">>,
       <<"P", "r", "e", "s", "b", "y", "t", "e", "r">>,
       <<"P", "r", "i", "e", "s", "t">> >>

\* The same with the root's own label "Clergy" in its place.
ClergyLabels ==
    <<ChildLabels[1], <<"C", "l", "e", "r", "g", "y">>,
      ChildLabels[2], ChildLabels[3], ChildLabels[4]>>

\* Whether s holds every element of seq, in the order of seq.
HoldsInOrder(seq, s) ==
    /\ Range(seq) \subseteq Range(s)
    /\ \A i, j \in DOMAIN seq :
          i < j => \E a, b \in DOMAIN s : a < b /\ s[a] = seq[i] /\ s[b] = seq[j]

\* The alternatives of a compiled pattern, in order.
Alternatives(regex) == SplitAlternation(StripAnchors(regex), <<>>)

\* re.escape of every element.
Escaped(seq) == [i \in DOMAIN seq |-> re_escape(seq[i])]

\* The entry of the default configuration's first category (root Clergy) has
\* been emitted for a Clergy hierarchy and the store answered both its queries.
ClergyEmitted ==
    /\ config = get_default_config
    /\ graph \in {ClergyOntology, BareClergyOntology}
    /\ Len(patterns) >= 1
    /\ \A c \in calls : c.cat = 1 => ~c.faulted

\* C11 as stated: for the root Clergy with the two direct children Bishop
\* and Priest, one alternate label each, the emitted entry has label_count =
\* 4, class_count = 3 and an alternation that holds the four labels in
\* lexicographic order.
C11_ClergyHasFourLabels ==
    ClergyEmitted =>
        /\ patterns[1].label_count = 4
        /\ patterns[1].class_count = 3
        /\ StartsWith(patterns[1].regex, AnchorOpen)
        /\ EndsWith(patterns[1].regex, AnchorClose)
        /\ HoldsInOrder(Escaped(ChildLabels), Alternatives(patterns[1].regex))

\* C11, amended: class_count = 3 (the root and its two children); the labels
\* are those of all three classes, the root's own included: label_count = 4
\* and the alternation Bishop|Ordinary|Presbyter|Priest when the root carries
\* no label, label_count = 5 and Bishop|Clergy|Ordinary|Presbyter|Priest when
\* the root is labelled "Clergy".
C11_ClergyCountsRootLabel ==
    ClergyEmitted =>
        LET expected == IF graph = ClergyOntology THEN ClergyLabels ELSE ChildLabels
        IN  /\ patterns[1].class_count = 3
            /\ patterns[1].class_uris = sorted(<<Clergy.v, Bishop.v, Priest.v>>)
            /\ patterns[1].labels = expected
            /\ patterns[1].label_count = Len(expected)
            /\ patterns[1].regex
                  = AnchorOpen \o Join(<<"|">>, Escaped(expected)) \o AnchorClose

\* A returned document whose first entry is that of the labelled root Clergy.
C11_Witness ==
    /\ ClergyEmitted
    /\ pc = "done"
    /\ graph = ClergyOntology
    /\ patterns[1].name = "church_hierarchy"
    /\ patterns[1].label_count = 5

(***************************************************************************)
(* Specification SpecQuery: the two query functions called directly, on    *)
(* any identifier, the store answering or raising.                         *)
(***************************************************************************)

IdentifierPrefixes ==
    {HTTP \o <<"o", "/">>,
     HTTPS \o <<"o", "/">>,
     <<"f", "t", "p", ":", "/", "/", "o", "/">>,
     <<"H", "T", "T", "P", ":", "/", "/", "o", "/">>,
     <<"h", "t", "t", "p", ":", "/">>,
     <<"o", "/">>,
     <<>>}

IdentifierSuffixes ==
    {<<"A">>, <<"B">>, <<"a", " ", "b">>, <<">">>, <<"<">>, <<"\"">>, <<"'">>,
     <<"\"", ">", " ", "D", "R", "O", "P">>, <<"A", "'", "B">>}

RootIdentifiers == {pre \o suf : pre \in IdentifierPrefixes, suf \in IdentifierSuffixes}

InitQuery ==
    /\ graph \in Ontologies
    /\ root_uri \in RootIdentifiers
    /\ closure_out = NotCalled
    /\ IdleCompile
    /\ IdleMain
    /\ IdleAmbiguity

\* A call get_subclass_labels(graph, root_uri).
CallLabels ==
    /\ \E store \in StoreOutcomes :
          calls' = calls \cup {CallRecord("get_subclass_labels", root_uri, store,
                                          get_subclass_labels(graph, root_uri, store))}
    /\ UNCHANGED <<graph, closureVars, compileVars, ambiguous, document, config, pc, raised,
                   cat_idx, root_idx, cat_labels, cat_uris, patterns>>

\* A call get_subclass_uris(graph, root_uri).
CallUris ==
    /\ \E store \in StoreOutcomes :
          calls' = calls \cup {CallRecord("get_subclass_uris", root_uri, store,
                                          get_subclass_uris(graph, root_uri, store))}
    /\ UNCHANGED <<graph, closureVars, compileVars, ambiguous, document, config, pc, raised,
                   cat_idx, root_idx, cat_labels, cat_uris, patterns>>

NextQuery == CallLabels \/ CallUris

SpecQuery == InitQuery /\ [][NextQuery]_vars

\* C2: a call of get_subclass_labels or get_subclass_uris with a rejectable
\* identifier raises ValueError and hands no query to the graph; no query text
\* ever holds a rejectable identifier.
C2_RejectedBeforeQuery ==
    \A c \in calls :
        /\ Rejectable(c.uri) => c.exc = "ValueError" /\ c.queried = {}
        /\ \A u \in c.queried : ~Rejectable(u)

\* Both functions have rejected an http:// identifier that holds a quote.
C2_Witness ==
    /\ StartsWith(root_uri, HTTP)
    /\ \E i \in 1..Len(root_uri) : root_uri[i] = "\""
    /\ \E c \in calls : c.fn = "get_subclass_labels" /\ c.exc = "ValueError"
    /\ \E c \in calls : c.fn = "get_subclass_uris" /\ c.exc = "ValueError"

(***************************************************************************)
(* Ambiguity detection: find_ambiguous_terms.find_ambiguous_labels         *)
(***************************************************************************)

\* BNode(id)
BNode(id) == [k |-> "bnode", v |-> id]

\* str.lower(), character by character.
LowerChar(c) == IF Ord(c) \in 65..90 THEN Ascii[Ord(c) + 32 - 31] ELSE c

lower(str) == [i \in 1..Len(str) |-> LowerChar(str[i])]

\* The list `parents` of _process_label, kept as a bag of parent labels: the
\* rdfs:label values of every parent other than owl:Thing.
ParentLabels(g, class_uri) ==
    LET pairs == {<<parent, l>> : parent \in Objects(g, class_uri, RDFS_subClassOf) \ {OWL_Thing},
                                  l \in UNION {Objects(g, q, RDFS_label) :
                                                 q \in Objects(g, class_uri, RDFS_subClassOf)}}
        found == {pr \in pairs : pr[2] \in Objects(g, pr[1], RDFS_label)}
    IN  [l \in {pr[2].v : pr \in found} |-> Cardinality({pr \in found : pr[2].v = l})]

\* _process_label(g, class_uri, label_predicate, label_to_classes, is_alt):
\* the pairs <<label_str, entry>> it appends.
process_label(g, class_uri, label_predicate, is_alt) ==
    {<<strip(lower(label.v)),
       [uri |-> class_uri.v, label |-> label.v, parents |-> ParentLabels(g, class_uri),
        is_alt |-> is_alt]>> : label \in Objects(g, class_uri, label_predicate)}

ScannedClassesAnyNamespace(g) ==
    {c \in Subjects(g, RDF_type, OWL_Class) : c.k # "bnode"}

\* The classes the scan visits: no blank node, inside the OSC namespace.
ScannedClasses(g) ==
    {c \in Subjects(g, RDF_type, OWL_Class) : c.k # "bnode" /\ StartsWith(c.v, OSC)}

\* find_ambiguous_labels(g): label -> the entries appended under it, for the
\* labels with more than one entry.  The entries of one label are distinct
\* (one per triple), so the list is kept as the set of its entries.
find_ambiguous_labels(g) ==
    LET appended == UNION {process_label(g, c, RDFS_label, FALSE)
                           \cup process_label(g, c, SKOS_altLabel, TRUE) :
                             c \in ScannedClasses(g)}
        label_to_classes == [l \in {a[1] : a \in appended} |->
                                {a[2] : a \in {x \in appended : x[1] = l}}]
    IN  [l \in {k \in DOMAIN label_to_classes : Cardinality(label_to_classes[k]) > 1} |->
            label_to_classes[l]]

(***************************************************************************)
(* Specification SpecAmbiguity: one scan of an ontology.                   *)
(***************************************************************************)

External == Node(1)

Anonymous == BNode(<<"b", "0">>)

ScanLabels == {<<"B", "i", "s", "h", "o", "p">>, <<"b", "i", "s", "h", "o", "p", " ">>, <<"P", "r", "i", "e", "s", "t">>}

\* The triples (s, p, l) for l in labels.
Labelled(s, p, labels) == {<<s, p, Literal(l)>> : l \in labels}

AtMostOne(S) == {{}} \cup {{x} : x \in S}

\* Ontologies of four classes: Bishop and Priest in the OSC namespace, with
\* at most one primary and one alternate label each, a class of another
\* namespace, and a blank node; Bishop has no parent, owl:Thing or Clergy;
\* owl:Thing is labelled "Thing".
ScanOntologies ==
    {{<<Bishop, RDF_type, OWL_Class>>, <<Priest, RDF_type, OWL_Class>>,
      <<External, RDF_type, OWL_Class>>, <<Anonymous, RDF_type, OWL_Class>>,
      <<Clergy, RDFS_label, Literal(<<"C", "l", "e", "r", "g", "y">>)>>,
      <<OWL_Thing, RDFS_label, Literal(<<"T", "h", "i", "n", "g">>)>>}
     \cup Labelled(Bishop, RDFS_label, l1) \cup Labelled(Bishop, SKOS_altLabel, a1)
     \cup Labelled(Priest, RDFS_label, l2) \cup Labelled(Priest, SKOS_altLabel, a2)
     \cup Labelled(External, RDFS_label, l3) \cup Labelled(Anonymous, RDFS_label, l4)
     \cup {<<Bishop, RDFS_subClassOf, parent>> : parent \in parents} :
        l1 \in AtMostOne(ScanLabels), a1 \in AtMostOne(ScanLabels),
        l2 \in AtMostOne(ScanLabels), a2 \in AtMostOne(ScanLabels),
        l3 \in AtMostOne({<<"B", "i", "s", "h", "o", "p">>}), l4 \in AtMostOne({<<"B", "i", "s", "h", "o", "p">>}),
        parents \in AtMostOne({OWL_Thing, Clergy})}

InitAmbiguity ==
    /\ graph \in ScanOntologies
    /\ ambiguous = NotScanned
    /\ root_uri = <<>>
    /\ closure_out = NotCalled
    /\ IdleCompile
    /\ IdleMain

\* main(): ambiguous = find_ambiguous_labels(g)
Scan ==
    /\ ~ambiguous.done
    /\ ambiguous' = [done |-> TRUE, groups |-> find_ambiguous_labels(graph)]
    /\ UNCHANGED <<graph, closureVars, compileVars, mainVars>>

NextAmbiguity == Scan

SpecAmbiguity == InitAmbiguity /\ [][NextAmbiguity]_vars

\* The classes in the scan's scope that hold the normalized text on a
\* primary or alternate label.
Holders(text) ==
    {c \in Subjects(graph, RDF_type, OWL_Class) :
        /\ c.k = "uri" /\ StartsWith(c.v, OSC)
        /\ \E p \in {RDFS_label, SKOS_altLabel} :
              \E l \in Objects(graph, c, p) : strip(lower(l.v)) = text}

NormalizedTexts ==
    {strip(lower(t[3].v)) : t \in {x \in graph : x[2] \in {RDFS_label, SKOS_altLabel}}}

\* C9 as stated: the scan returns a group for a normalized text if and only
\* if two or more distinct classes hold it, and the group then has the
\* occurrences of exactly these classes; a text only one class holds, on
\* however many label triples, has no group.
C9_GroupIffTwoClasses ==
    ambiguous.done =>
        \A text \in NormalizedTexts \cup DOMAIN ambiguous.groups :
            /\ text \in DOMAIN ambiguous.groups <=> Cardinality(Holders(text)) >= 2
            /\ text \in DOMAIN ambiguous.groups =>
                  {e.uri : e \in ambiguous.groups[text]} = {c.v : c \in Holders(text)}

\* The graph without the triples whose subject is a class outside the OSC
\* namespace or a blank node.
OwnNamespaceOnly ==
    {t \in graph : ~(/\ <<t[1], RDF_type, OWL_Class>> \in graph
                     /\ (t[1].k = "bnode" \/ ~StartsWith(t[1].v, OSC)))}

\* C14: every occurrence of every group is that of a class of the graph
\* whose identifier starts with the OSC namespace and that is no blank
\* node; the groups are those of the graph without its other classes, so
\* these neither add an occurrence nor keep a group; and no occurrence lists
\* a label of owl:Thing among its parent labels.
C14_OwnNamespaceOnly ==
    ambiguous.done =>
        /\ \A text \in DOMAIN ambiguous.groups :
              \A e \in ambiguous.groups[text] :
                  /\ StartsWith(e.uri, OSC)
                  /\ <<Uri(e.uri), RDF_type, OWL_Class>> \in graph
                  /\ \A c \in Subjects(graph, RDF_type, OWL_Class) :
                        c.k = "bnode" => c.v # e.uri
                  /\ \A l \in Objects(graph, OWL_Thing, RDFS_label) :
                        l.v \notin DOMAIN e.parents
        /\ ambiguous.groups = find_ambiguous_labels(OwnNamespaceOnly)

\* A group "bishop" of Bishop and Priest, Bishop being a subclass of the
\* labelled owl:Thing, while a class of another namespace and a blank node
\* are labelled "Bishop" too.
C14_Witness ==
    /\ ambiguous.done
    /\ <<"b", "i", "s", "h", "o", "p">> \in DOMAIN ambiguous.groups
    /\ {e.uri : e \in ambiguous.groups[<<"b", "i", "s", "h", "o", "p">>]} = {Bishop.v, Priest.v}
    /\ <<Bishop, RDFS_subClassOf, OWL_Thing>> \in graph
    /\ Objects(graph, OWL_Thing, RDFS_label) # {}
    /\ Objects(graph, External, RDFS_label) # {}
    /\ Objects(graph, Anonymous, RDFS_label) # {}

====
